---- MODULE Spec2Model ----
(***************************************************************************)
(* Model of dfdx's 4-bit quantization (src/tensor/quant_cpu/quantize.rs)   *)
(* and of the dropout kernel over quantized storage                        *)
(* (src/tensor_ops/dropout/quant_cpu_kernel.rs).                           *)
(*                                                                         *)
(* Floating values are modelled as exact rationals <<n, d>> in lowest      *)
(* terms with d > 0; NonFinite stands for every non-finite float           *)
(* (infinities and NaN).                                                   *)
(***************************************************************************)
EXTENDS Integers, Sequences, FiniteSets, TLC

VARIABLES
    debug_build,      \* build profile: debug assertions and overflow checks on
    qpc,              \* position of the quantization client
    kind,             \* "none" | "ScaledQuant" | "OffsetQuant"
    values,           \* the sample handed to from_values
    scaling_factor,   \* field of ScaledQuant / OffsetQuant
    offset_factor,    \* field of OffsetQuant
    value,            \* argument of the last quantize call
    qres,             \* result of the last quantize call
    deq,              \* result of the last dequantize call
    dpc,              \* position of the dropout kernel
    prob,             \* op.prob
    seed,             \* op.seed
    rng,              \* state of the generator local to the running call
    inp,              \* inp.data of forward / backward
    out,              \* out.data of forward
    grad_inp,         \* backward's accumulated buffer
    grad_out,         \* backward's upstream gradient
    grad_inp0,        \* grad_inp as it was when backward was called
    k,                \* number of elements the storage iterator has yielded
    i,                \* backward's running counter
    fwd_draws,        \* draws consumed by forward, in order
    bwd_draws,        \* draws consumed by backward, in order
    fwd_zeroed,       \* indices forward set to zero
    bwd_zeroed,       \* indices backward gave a zero contribution
    recip_of_zero     \* a division by / reciprocal of (1 - p) = 0 was evaluated

qvars == <<qpc, kind, values, scaling_factor, offset_factor, value, qres, deq>>
dvars == <<dpc, prob, seed, rng, inp, out, grad_inp, grad_out, grad_inp0, k, i,
           fwd_draws, bwd_draws, fwd_zeroed, bwd_zeroed, recip_of_zero>>
vars == <<debug_build, qvars, dvars>>

----------------------------------------------------------------------------
\* Bounds of the model

\* longest sample handed to from_values
MaxLen == 2
\* sample elements and quantize arguments range over -MaxAbs..MaxAbs
MaxAbs == 4
\* quantize arguments far outside the sample range are multiples of Far
Far == 40
\* longest storage buffer of the dropout kernel
MaxN == 2
\* seeds range over 0..MaxSeed
MaxSeed == 1
\* probabilities and uniform draws are multiples of 1 / ProbDen
ProbDen == 4

----------------------------------------------------------------------------
\* Exact arithmetic standing for num_traits::Float

\* E::max_value(); E::min_value() is its negation
E_max_value == 1000000

NonFinite == <<0, 0>>

Abs(n) == IF n < 0 THEN -n ELSE n

RECURSIVE GCD(_, _)
GCD(a, b) == IF b = 0 THEN a ELSE GCD(b, a % b)

IsFinite(x) == x[2] # 0

\* a result beyond the largest finite float overflows to an infinity
Norm(n, d) ==
    IF d = 0 THEN NonFinite
    ELSE LET s == IF d < 0 THEN -1 ELSE 1
             g == GCD(Abs(n), Abs(d))
             nn == (s * n) \div g
             dd == (s * d) \div g
         IN IF Abs(nn) > E_max_value * dd THEN NonFinite ELSE <<nn, dd>>

R(n) == <<n, 1>>

RAdd(a, b) == IF IsFinite(a) /\ IsFinite(b)
              THEN Norm(a[1] * b[2] + b[1] * a[2], a[2] * b[2]) ELSE NonFinite
RSub(a, b) == IF IsFinite(a) /\ IsFinite(b)
              THEN Norm(a[1] * b[2] - b[1] * a[2], a[2] * b[2]) ELSE NonFinite
RMul(a, b) == IF IsFinite(a) /\ IsFinite(b)
              THEN Norm(a[1] * b[1], a[2] * b[2]) ELSE NonFinite
RDiv(a, b) == IF IsFinite(a) /\ IsFinite(b)
              THEN Norm(a[1] * b[2], a[2] * b[1]) ELSE NonFinite
RAbs(a) == <<Abs(a[1]), a[2]>>
is_zero(a) == IsFinite(a) /\ a[1] = 0

\* partial_cmp: comparisons with a non-finite operand are modelled as unordered
RLess(a, b) == IsFinite(a) /\ IsFinite(b) /\ a[1] * b[2] < b[1] * a[2]
RLeq(a, b) == IsFinite(a) /\ IsFinite(b) /\ a[1] * b[2] <= b[1] * a[2]

\* f32::round: to the nearest integer, halves away from zero
round(a) ==
    IF ~IsFinite(a) THEN NonFinite
    ELSE IF a[1] >= 0 THEN R((2 * a[1] + a[2]) \div (2 * a[2]))
    ELSE R(-((2 * (-a[1]) + a[2]) \div (2 * a[2])))

Min(a, b) == IF a < b THEN a ELSE b
Max(a, b) == IF a > b THEN a ELSE b

\* `as i8` of a float: saturating, NaN to 0
as_i8(a) == IF ~IsFinite(a) THEN 0 ELSE Max(-128, Min(127, a[1] \div a[2]))
\* `as u8` of a float: saturating, NaN to 0
as_u8(a) == IF ~IsFinite(a) THEN 0 ELSE Max(0, Min(255, a[1] \div a[2]))

----------------------------------------------------------------------------
\* quantize.rs

\* u4::from_byte
from_byte(byte_value) ==
    IF byte_value > 15
    THEN [ok |-> FALSE, err |-> "HalfByteConstructionError"]
    ELSE [ok |-> TRUE, val |-> byte_value]

\* i8 addition: an overflow panics when overflow checks are on (the debug
\* profile) and wraps around otherwise
i8_add(x, y, checked) ==
    LET sum == x + y
    IN IF sum > 127 \/ sum < -128
       THEN IF checked THEN [panic |-> TRUE]
            ELSE [panic |-> FALSE, val |-> ((sum + 128) % 256) - 128]
       ELSE [panic |-> FALSE, val |-> sum]

\* Iterator::max_by(|f1, f2| f1.partial_cmp(f2).unwrap()) over vs[j..], the
\* running maximum being acc: a later element replaces it unless acc is greater
RECURSIVE max_by(_, _, _)
max_by(vs, j, acc) ==
    IF j > Len(vs) THEN acc
    ELSE max_by(vs, j + 1, IF RLess(vs[j], acc) THEN acc ELSE vs[j])

\* ScaledQuant::from_values
ScaledQuant_from_values(vs) ==
    IF Len(vs) = 0
    THEN [panic |-> TRUE]
    ELSE [panic |-> FALSE,
          scaling_factor |-> RDiv(RAbs(max_by(vs, 2, vs[1])), R(7))]

\* inv_scaling_factor without the zero guard
inv_scaling_factor_unguarded(sf) == RDiv(R(1), sf)

\* the zero guard shared by both quantize methods
inv_scaling_factor(sf) == IF is_zero(sf) THEN R(0) ELSE RDiv(R(1), sf)

\* ScaledQuant::quantize
ScaledQuant_quantize(sf, v, checked) ==
    LET cast == as_i8(round(RMul(v, inv_scaling_factor(sf))))
        sum == i8_add(cast, 8, checked)
    IN IF sum.panic THEN [status |-> "overflow"]
       ELSE LET b == from_byte(Max(Min(sum.val, 15), 0))
            IN IF b.ok THEN [status |-> "ok", code |-> b.val]
               ELSE [status |-> b.err]

\* ScaledQuant::dequantize
ScaledQuant_dequantize(sf, half_byte) == RMul(R(half_byte - 8), sf)

\* the scan of OffsetQuant::from_values over vs[j..]
RECURSIVE min_max(_, _, _, _)
min_max(vs, j, min, max) ==
    IF j > Len(vs) THEN <<min, max>>
    ELSE min_max(vs, j + 1,
                 IF RLess(vs[j], min) THEN vs[j] ELSE min,
                 IF RLess(max, vs[j]) THEN vs[j] ELSE max)

\* OffsetQuant::from_values: an empty sample is not rejected
OffsetQuant_from_values(vs) ==
    LET mm == min_max(vs, 1, R(E_max_value), R(-E_max_value))
    IN [panic |-> FALSE,
        scaling_factor |-> RDiv(RSub(mm[2], mm[1]), R(15)),
        offset_factor |-> mm[1]]

\* OffsetQuant::quantize
OffsetQuant_quantize(sf, off, v) ==
    LET cast == as_u8(round(RMul(RSub(v, off), inv_scaling_factor(sf))))
        b == from_byte(Max(Min(cast, 15), 0))
    IN IF b.ok THEN [status |-> "ok", code |-> b.val] ELSE [status |-> b.err]

\* OffsetQuant::dequantize
OffsetQuant_dequantize(sf, off, half_byte) == RAdd(RMul(R(half_byte), sf), off)

----------------------------------------------------------------------------
\* A client of the Quantize trait: fit once, quantize a value, dequantize it

SampleValues == {R(n) : n \in -MaxAbs..MaxAbs}
Samples == UNION {[1..n -> SampleValues] : n \in 0..MaxLen}
QuantizeInputs == SampleValues \cup {R(n * Far) : n \in -MaxAbs..MaxAbs}

NoResult == [status |-> "none"]

QIdle ==
    /\ qpc = "idle"
    /\ kind = "none"
    /\ values = <<>>
    /\ scaling_factor = R(0)
    /\ offset_factor = R(0)
    /\ value = R(0)
    /\ qres = NoResult
    /\ deq = R(0)

FromValuesScaled ==
    /\ qpc = "start"
    /\ \E vs \in Samples :
        LET r == ScaledQuant_from_values(vs)
        IN /\ values' = vs
           /\ kind' = "ScaledQuant"
           /\ IF r.panic
              THEN /\ qpc' = "fit_panicked"
                   /\ UNCHANGED scaling_factor
              ELSE /\ qpc' = "fitted"
                   /\ scaling_factor' = r.scaling_factor
    /\ UNCHANGED <<offset_factor, value, qres, deq, debug_build, dvars>>

FromValuesOffset ==
    /\ qpc = "start"
    /\ \E vs \in Samples :
        LET r == OffsetQuant_from_values(vs)
        IN /\ values' = vs
           /\ kind' = "OffsetQuant"
           /\ qpc' = "fitted"
           /\ scaling_factor' = r.scaling_factor
           /\ offset_factor' = r.offset_factor
    /\ UNCHANGED <<value, qres, deq, debug_build, dvars>>

QuantizeScaled ==
    /\ qpc = "fitted"
    /\ kind = "ScaledQuant"
    /\ \E v \in QuantizeInputs :
        LET r == ScaledQuant_quantize(scaling_factor, v, debug_build)
        IN /\ value' = v
           /\ qres' = r
           /\ qpc' = IF r.status = "ok" THEN "quantized" ELSE "quantize_panicked"
    /\ UNCHANGED <<kind, values, scaling_factor, offset_factor, deq, debug_build, dvars>>

QuantizeOffset ==
    /\ qpc = "fitted"
    /\ kind = "OffsetQuant"
    /\ \E v \in QuantizeInputs :
        LET r == OffsetQuant_quantize(scaling_factor, offset_factor, v)
        IN /\ value' = v
           /\ qres' = r
           /\ qpc' = IF r.status = "ok" THEN "quantized" ELSE "quantize_panicked"
    /\ UNCHANGED <<kind, values, scaling_factor, offset_factor, deq, debug_build, dvars>>

DequantizeScaled ==
    /\ qpc = "quantized"
    /\ kind = "ScaledQuant"
    /\ deq' = ScaledQuant_dequantize(scaling_factor, qres.code)
    /\ qpc' = "dequantized"
    /\ UNCHANGED <<kind, values, scaling_factor, offset_factor, value, qres, debug_build, dvars>>

DequantizeOffset ==
    /\ qpc = "quantized"
    /\ kind = "OffsetQuant"
    /\ deq' = OffsetQuant_dequantize(scaling_factor, offset_factor, qres.code)
    /\ qpc' = "dequantized"
    /\ UNCHANGED <<kind, values, scaling_factor, offset_factor, value, qres, debug_build, dvars>>

----------------------------------------------------------------------------
\* quant_cpu_kernel.rs

\* number of states of the generator standing for StdRng
RngMod == 16

\* StdRng::seed_from_u64: the same seed gives the same generator state
seed_from_u64(s) == s % RngMod

\* the generator's state after one sample
rng_next(state) == (13 * state + 7) % RngMod

\* rng.sample(Standard): a uniform draw in [0, 1), a function of the state
rng_sample(state) == Norm((rng_next(state) * ProbDen) \div RngMod, ProbDen)

\* iter_blocks_mut: the logical indices of a storage buffer in the order the
\* traversal yields them, every element once, in index order
iter_blocks_mut(storage) == [j \in 1..Len(storage) |-> j]

\* Storage::get(i) with a 0-based i: None past the end
storage_get(storage, idx) ==
    IF idx < Len(storage) THEN [some |-> TRUE, val |-> storage[idx + 1]]
    ELSE [some |-> FALSE]

\* forward_elem with the branches exchanged: op.prob taken as the probability
\* of keeping an element
forward_elem_keep(x, val, p) ==
    IF RLess(val, p)
    THEN [val |-> RDiv(x, RSub(R(1), p)), zeroed |-> FALSE, divided |-> TRUE]
    ELSE [val |-> R(0), zeroed |-> TRUE, divided |-> FALSE]

\* the element forward writes for draw val: zero when val < op.prob, else
\* x / (1 - op.prob); divided tells that the division was evaluated
forward_elem(x, val, p) ==
    IF RLess(val, p)
    THEN [val |-> R(0), zeroed |-> TRUE, divided |-> FALSE]
    ELSE [val |-> RDiv(x, RSub(R(1), p)), zeroed |-> FALSE, divided |-> TRUE]

\* backward_factor dropping on val <= op.prob instead of val < op.prob
backward_factor_leq(val, p) ==
    IF RLeq(val, p)
    THEN [val |-> R(0), zeroed |-> TRUE, divided |-> FALSE]
    ELSE [val |-> RDiv(R(1), RSub(R(1), p)), zeroed |-> FALSE, divided |-> TRUE]

\* the factor backward multiplies grad_out[i] by for draw val: zero when
\* val < op.prob, else (1 - op.prob).recip()
backward_factor(val, p) ==
    IF RLess(val, p)
    THEN [val |-> R(0), zeroed |-> TRUE, divided |-> FALSE]
    ELSE [val |-> RDiv(R(1), RSub(R(1), p)), zeroed |-> FALSE, divided |-> TRUE]

\* backward_elem assigning instead of accumulating
backward_elem_assign(data_i, factor, g) == RMul(factor, g)

\* *data_i += factor * grad_out.get(i).unwrap()
backward_elem(data_i, factor, g) == RAdd(data_i, RMul(factor, g))

\* backward_asserts without the check of the input tensor's length
backward_asserts_grads_only(gi, go, input, debug) ==
    debug => Len(gi) = Len(go)

\* the two debug_assert_eq! of backward: compiled in only with debug assertions
backward_asserts(gi, go, input, debug) ==
    debug => (Len(gi) = Len(go) /\ Len(input) = Len(go))

TensorValues == {R(1), R(-2)}
GradValues == {R(1), R(3)}
Tensors == UNION {[1..n -> TensorValues] : n \in 0..MaxN}
Grads == UNION {[1..n -> GradValues] : n \in 0..MaxN}
\* backward reads only the length of its input tensor
BackwardInputs == {[j \in 1..n |-> R(1)] : n \in 0..MaxN}
Probs == {Norm(n, ProbDen) : n \in 0..ProbDen}

DIdle ==
    /\ dpc = "idle"
    /\ prob = R(0)
    /\ seed = 0
    /\ rng = 0
    /\ inp = <<>>
    /\ out = <<>>
    /\ grad_inp = <<>>
    /\ grad_out = <<>>
    /\ grad_inp0 = <<>>
    /\ k = 0
    /\ i = 0
    /\ fwd_draws = <<>>
    /\ bwd_draws = <<>>
    /\ fwd_zeroed = {}
    /\ bwd_zeroed = {}
    /\ recip_of_zero = FALSE

\* forward, up to the loop: seed the generator, clone the input's storage
ForwardBegin ==
    /\ dpc = "start"
    /\ \E s \in 0..MaxSeed, p \in Probs, t \in Tensors :
        /\ seed' = s
        /\ prob' = p
        /\ inp' = t
        /\ out' = t
        /\ rng' = seed_from_u64(s)
    /\ k' = 0
    /\ dpc' = "forward_loop"
    /\ UNCHANGED <<grad_inp, grad_out, grad_inp0, i, fwd_draws, bwd_draws,
                   fwd_zeroed, bwd_zeroed, recip_of_zero, debug_build, qvars>>

\* one iteration of forward's loop
ForwardStep ==
    /\ dpc = "forward_loop"
    /\ k < Len(iter_blocks_mut(out))
    /\ LET x == iter_blocks_mut(out)[k + 1]
           val == rng_sample(rng)
           e == forward_elem(out[x], val, prob)
       IN /\ rng' = rng_next(rng)
          /\ out' = [out EXCEPT ![x] = e.val]
          /\ fwd_draws' = Append(fwd_draws, [idx |-> x, u |-> val])
          /\ fwd_zeroed' = IF e.zeroed THEN fwd_zeroed \cup {x} ELSE fwd_zeroed
          /\ recip_of_zero' = (recip_of_zero \/ (e.divided /\ is_zero(RSub(R(1), prob))))
    /\ k' = k + 1
    /\ UNCHANGED <<dpc, prob, seed, inp, grad_inp, grad_out, grad_inp0, i,
                   bwd_draws, bwd_zeroed, debug_build, qvars>>

\* forward's loop is over: Ok(out)
ForwardReturn ==
    /\ dpc = "forward_loop"
    /\ k = Len(iter_blocks_mut(out))
    /\ dpc' = "forward_done"
    /\ UNCHANGED <<prob, seed, rng, inp, out, grad_inp, grad_out, grad_inp0, k, i,
                   fwd_draws, bwd_draws, fwd_zeroed, bwd_zeroed, recip_of_zero,
                   debug_build, qvars>>

\* backward of the same op, up to the loop: seed the generator, check lengths
BackwardBegin ==
    /\ dpc = "forward_done"
    /\ \E t \in BackwardInputs, gi \in Grads, go \in Grads :
        /\ inp' = t
        /\ grad_inp' = gi
        /\ grad_inp0' = gi
        /\ grad_out' = go
        /\ dpc' = IF backward_asserts(gi, go, t, debug_build)
                  THEN "backward_loop" ELSE "backward_panicked"
    /\ rng' = seed_from_u64(seed)
    /\ k' = 0
    /\ i' = 0
    /\ UNCHANGED <<prob, seed, out, fwd_draws, bwd_draws, fwd_zeroed, bwd_zeroed,
                   recip_of_zero, debug_build, qvars>>

\* one iteration of backward's loop
BackwardStep ==
    /\ dpc = "backward_loop"
    /\ k < Len(iter_blocks_mut(grad_inp))
    /\ LET x == iter_blocks_mut(grad_inp)[k + 1]
           val == rng_sample(rng)
           f == backward_factor(val, prob)
           g == storage_get(grad_out, i)
       IN /\ rng' = rng_next(rng)
          /\ recip_of_zero' = (recip_of_zero \/ (f.divided /\ is_zero(RSub(R(1), prob))))
          /\ IF g.some
             THEN /\ grad_inp' = [grad_inp EXCEPT ![x] = backward_elem(grad_inp[x], f.val, g.val)]
                  /\ bwd_draws' = Append(bwd_draws, [idx |-> x, u |-> val])
                  /\ bwd_zeroed' = IF f.zeroed THEN bwd_zeroed \cup {x} ELSE bwd_zeroed
                  /\ i' = i + 1
                  /\ k' = k + 1
                  /\ UNCHANGED dpc
             ELSE /\ dpc' = "backward_panicked"
                  /\ UNCHANGED <<grad_inp, bwd_draws, bwd_zeroed, i, k>>
    /\ UNCHANGED <<prob, seed, inp, out, grad_out, grad_inp0, fwd_draws, fwd_zeroed,
                   debug_build, qvars>>

\* backward's loop is over: Ok(())
BackwardReturn ==
    /\ dpc = "backward_loop"
    /\ k = Len(iter_blocks_mut(grad_inp))
    /\ dpc' = "backward_done"
    /\ UNCHANGED <<prob, seed, rng, inp, out, grad_inp, grad_out, grad_inp0, k, i,
                   fwd_draws, bwd_draws, fwd_zeroed, bwd_zeroed, recip_of_zero,
                   debug_build, qvars>>

----------------------------------------------------------------------------
\* Specifications

\* the quantization client
InitQ ==
    /\ debug_build \in BOOLEAN
    /\ qpc = "start"
    /\ kind = "none"
    /\ values = <<>>
    /\ scaling_factor = R(0)
    /\ offset_factor = R(0)
    /\ value = R(0)
    /\ qres = NoResult
    /\ deq = R(0)
    /\ DIdle

NextQ ==
    \/ FromValuesScaled
    \/ FromValuesOffset
    \/ QuantizeScaled
    \/ QuantizeOffset
    \/ DequantizeScaled
    \/ DequantizeOffset

SpecQ == InitQ /\ [][NextQ]_vars

\* the dropout kernel: forward, then backward of the same op
InitD ==
    /\ debug_build \in BOOLEAN
    /\ QIdle
    /\ dpc = "start"
    /\ prob = R(0)
    /\ seed = 0
    /\ rng = 0
    /\ inp = <<>>
    /\ out = <<>>
    /\ grad_inp = <<>>
    /\ grad_out = <<>>
    /\ grad_inp0 = <<>>
    /\ k = 0
    /\ i = 0
    /\ fwd_draws = <<>>
    /\ bwd_draws = <<>>
    /\ fwd_zeroed = {}
    /\ bwd_zeroed = {}
    /\ recip_of_zero = FALSE

NextD ==
    \/ ForwardBegin
    \/ ForwardStep
    \/ ForwardReturn
    \/ BackwardBegin
    \/ BackwardStep
    \/ BackwardReturn

SpecD == InitD /\ [][NextD]_vars

----------------------------------------------------------------------------
\* Properties of the quantization schemes (checked under SpecQ)

Quantized == qres # NoResult
Range(vs) == {vs[j] : j \in 1..Len(vs)}
ConstantSample == Len(values) > 0 /\ \A j \in 1..Len(values) : values[j] = values[1]
\* the largest |v| of a non-empty sample
MaxAbsOf(vs) == CHOOSE m \in {RAbs(v) : v \in Range(vs)} :
                    \A v \in Range(vs) : RLeq(RAbs(v), m)
Clamp(n, lo, hi) == Max(lo, Min(hi, n))
ZeroCode == IF kind = "ScaledQuant" THEN 8 ELSE 0

\* C1: for every input value and both schemes fitted from a non-empty sample,
\* quantize completes without failing and returns a code in [0, 15].
C1_QuantizeNeverFails ==
    (Quantized /\ Len(values) > 0) =>
        (qres.status = "ok" /\ qres.code \in 0..15)

\* C3: ScaledQuant::from_values on a non-empty sample sets scaling_factor to
\* the largest |v_i| of the sample divided by 7.
C3_ScalingFactorIsMaxAbs ==
    (kind = "ScaledQuant" /\ qpc = "fitted") =>
        scaling_factor = RDiv(MaxAbsOf(values), R(7))

\* C4: ScaledQuant::quantize(value) returns exactly
\* clamp(round(value * inverse) + 8, 0, 15) for every value.
C4_ScaledQuantizeIsClampedRound ==
    (kind = "ScaledQuant" /\ Quantized) =>
        /\ qres.status = "ok"
        /\ qres.code =
             Clamp(round(RMul(value, inv_scaling_factor(scaling_factor)))[1] + 8, 0, 15)

\* the sample range: an element of the sample or a value between its minimum
\* and maximum
InSampleRange(v) ==
    \E lo \in Range(values), hi \in Range(values) : RLeq(lo, v) /\ RLeq(v, hi)

\* C5: for either scheme fitted on a non-empty sample and every v in the sample
\* range, |dequantize(quantize(v)) - v| <= scaling_factor.
C5_RoundTripBound ==
    (qpc = "dequantized" /\ InSampleRange(value)) =>
        RLeq(RAbs(RSub(deq, value)), scaling_factor)

\* C6: from_values never returns a scheme for an empty sample, for both schemes.
C6_EmptySampleFails ==
    (kind # "none" /\ values = <<>>) => qpc = "fit_panicked"

\* C8 as stated: for either scheme fitted from a constant sample (any c),
\* quantize uses an inverse scale of zero and maps every input to the zero code.
C8_ConstantSampleZeroCode ==
    (ConstantSample /\ Quantized) =>
        /\ inv_scaling_factor(scaling_factor) = R(0)
        /\ qres.status = "ok"
        /\ qres.code = ZeroCode

\* C8 amended: for OffsetQuant fitted from a constant sample (any c) and for
\* ScaledQuant fitted from an all-zero sample, quantize uses an inverse scale
\* of zero and maps every input to the zero code (8 for ScaledQuant, 0 for
\* OffsetQuant).
C8_ZeroScaleZeroCode ==
    (ConstantSample /\ Quantized /\ (kind = "OffsetQuant" \/ values[1] = R(0))) =>
        /\ is_zero(scaling_factor)
        /\ inv_scaling_factor(scaling_factor) = R(0)
        /\ qres.status = "ok"
        /\ qres.code = ZeroCode

C8_Witness ==
    /\ ConstantSample
    /\ kind = "OffsetQuant"
    /\ Len(values) >= 2
    /\ values[1] # R(0)
    /\ Quantized
    /\ value # values[1]
    /\ qres.status = "ok"
    /\ qres.code = 0

----------------------------------------------------------------------------
\* Properties of the dropout kernel (checked under SpecD)

InBackward == dpc \in {"backward_loop", "backward_done", "backward_panicked"}
LengthsMatch == Len(grad_inp) = Len(grad_out) /\ Len(inp) = Len(grad_out)
Dropped(draw) == RLess(draw.u, prob)

\* C2: the k-th draw consumed by backward is the k-th draw consumed by forward,
\* both are applied to logical element k, and on buffers of the same length the
\* indices forward zeroes (draw < p) are exactly the indices backward gives a
\* zero contribution.
C2_MaskConsistency ==
    /\ \A j \in 1..Len(fwd_draws) :
        /\ fwd_draws[j].idx = j
        /\ (j \in fwd_zeroed) <=> Dropped(fwd_draws[j])
    /\ \A j \in 1..Len(bwd_draws) :
        /\ bwd_draws[j].idx = j
        /\ (j \in bwd_zeroed) <=> Dropped(bwd_draws[j])
        /\ j <= Len(fwd_draws) =>
            /\ bwd_draws[j] = fwd_draws[j]
            /\ (j \in bwd_zeroed) <=> (j \in fwd_zeroed)
    /\ (dpc = "backward_done" /\ LengthsMatch /\ Len(grad_inp) = Len(out)) =>
        /\ Len(bwd_draws) = Len(fwd_draws)
        /\ bwd_zeroed = fwd_zeroed

C2_Witness ==
    /\ dpc = "backward_done"
    /\ LengthsMatch
    /\ Len(grad_inp) = Len(out)
    /\ fwd_zeroed # {}
    /\ fwd_zeroed # 1..Len(out)
    /\ bwd_zeroed = fwd_zeroed

\* C7 as stated: backward never returns Ok(()) when the lengths of grad_input,
\* grad_output and the input storage are not all equal.
C7_MismatchNeverOk ==
    dpc = "backward_done" => LengthsMatch

\* C7 amended: backward with mismatched lengths never returns Ok(()) when debug
\* assertions are compiled in or grad_input is longer than grad_output; built
\* without debug assertions and with grad_input not longer than grad_output it
\* is not stopped by the length check.
C7_MismatchFatalWhenChecked ==
    /\ (dpc = "backward_done" /\ ~LengthsMatch) =>
        (~debug_build /\ Len(grad_inp) <= Len(grad_out))
    /\ dpc = "backward_panicked" =>
        (~LengthsMatch /\ (debug_build \/ Len(grad_inp) > Len(grad_out)))

C7_Witness ==
    /\ dpc = "backward_panicked"
    /\ Len(grad_inp) = Len(grad_out)
    /\ Len(inp) # Len(grad_out)
    /\ debug_build

\* the gradient backward has accumulated into element j once it has visited it
Accumulated(j) ==
    IF Dropped(bwd_draws[j]) THEN grad_inp0[j]
    ELSE RAdd(grad_inp0[j], RDiv(grad_out[j], RSub(R(1), prob)))

\* C9: backward with matching lengths n leaves in grad_input[i] its value
\* before the call plus 0 when the i-th draw is below p and plus
\* grad_output[i] / (1 - p) otherwise, each index updated exactly once (the
\* running counter equals the index of the element being updated and is n at
\* the end), and leaves grad_output and the input tensor unchanged.
C9_BackwardAccumulates ==
    /\ [](InBackward /\ LengthsMatch =>
            /\ i = k
            /\ Len(bwd_draws) = k
            /\ Len(grad_inp) = Len(grad_inp0)
            /\ \A j \in 1..Len(grad_inp) :
                grad_inp[j] = IF j <= k THEN Accumulated(j) ELSE grad_inp0[j]
            /\ dpc # "backward_panicked"
            /\ dpc = "backward_done" => i = Len(grad_inp))
    /\ [][InBackward => (grad_out' = grad_out /\ inp' = inp /\ grad_inp0' = grad_inp0)]_vars

C9_Witness ==
    /\ dpc = "backward_done"
    /\ LengthsMatch
    /\ Len(grad_inp) >= 2
    /\ bwd_zeroed # {}
    /\ bwd_zeroed # 1..Len(grad_inp)
    /\ i = Len(grad_inp)

\* C10: with p = 1 forward sets every output element to zero, backward adds
\* zero to every grad_input element, and neither evaluates the division by /
\* reciprocal of (1 - p) = 0.
C10_ProbOneNeverDivides ==
    prob = R(1) =>
        /\ ~recip_of_zero
        /\ dpc = "forward_loop" => \A j \in 1..k : out[j] = R(0)
        /\ (dpc = "forward_done" \/ InBackward) =>
            /\ \A j \in 1..Len(out) : out[j] = R(0)
            /\ fwd_zeroed = 1..Len(out)
        /\ InBackward =>
            /\ grad_inp = grad_inp0
            /\ bwd_zeroed = 1..k

C10_Witness ==
    /\ prob = R(1)
    /\ dpc = "backward_done"
    /\ Len(out) >= 2
    /\ Len(grad_inp) >= 2
    /\ ~recip_of_zero

====
